---- MODULE Spec2Model ----
(***************************************************************************)
(* Consistent-hash ring of src/consistent.go.                              *)
(*                                                                         *)
(* The Consistent struct is the triple (hash, keys, hashMap).  Methods are *)
(* operators taking the receiver m as a record with those three fields;    *)
(* mutating methods return the new receiver together with the result.      *)
(* Positions are Go ints holding a converted uint32, so on a 64-bit build  *)
(* hash-1 and prev(..)+1 never overflow; 0..MaxHash stands for 0..2^32-1.  *)
(*                                                                         *)
(* src/consistent.go holds two revisions of the package.  Where a method   *)
(* is defined twice the later definition (lines 190-402) is modelled under *)
(* the source's name; GetFromHash exists only in the earlier revision and  *)
(* is modelled with the prev it calls there (prevR, lines 160-175).        *)
(***************************************************************************)
EXTENDS Integers, Sequences, FiniteSets, TLC

\* ---------------------------------------------------------------- bounds
NumKeys == 3
MaxHash == 3
MaxCount == 3
MaxReplicas == 2

KeyPool == <<"a", "b", "c", "d", "e", "f">>
Keys == {KeyPool[i] : i \in 1..NumKeys}
Positions == 0..MaxHash
Counts == 0..MaxCount

\* Hash functions a caller may pass to New.  Keys are opaque, so only one
\* function per renaming of the keys is enumerated (non-decreasing in the
\* pool order); collisions and every position are still covered.
HashFns ==
  {f \in [Keys -> Positions] :
     \A i \in 1..NumKeys : \A j \in i..NumKeys : f[KeyPool[i]] <= f[KeyPool[j]]}

\* Goroutines calling into one shared ring (SpecConc).
Threads == {1, 2}

\* hash, keys, hashMap: the fields of Consistent.  call, prevCall, added:
\* the caller's record of completed calls.  thr, rw, crash: the goroutines'
\* positions, the embedded sync.RWMutex and the process's fate (SpecConc).
VARIABLES hash, keys, hashMap, call, prevCall, added, thr, rw, crash

vars == <<hash, keys, hashMap, call, prevCall, added, thr, rw, crash>>

concVars == <<thr, rw, crash>>

\* The receiver *Consistent as a value.
ring == [hash |-> hash, keys |-> keys, hashMap |-> hashMap]

\* ------------------------------------------------------- library helpers
\* sort.Search(n, f): smallest i in 0..n with f(i) true (n if none), by
\* bisection; f is the predicate tabulated over 0..n-1.
RECURSIVE SearchLoop(_, _, _)
SearchLoop(i, j, f) ==
  IF i < j
    THEN LET h == (i + j) \div 2
         IN  IF ~f[h] THEN SearchLoop(h + 1, j, f) ELSE SearchLoop(i, h, f)
    ELSE i

Search(n, f) == SearchLoop(0, n, f)

\* Go slice indexing s[i], 0-based.
At(s, i) == s[i + 1]

RECURSIVE InsertInt(_, _)
InsertInt(x, s) ==
  IF s = <<>> THEN <<x>>
  ELSE IF x <= Head(s) THEN <<x>> \o s
  ELSE <<Head(s)>> \o InsertInt(x, Tail(s))

\* sort.Ints: ascending order, duplicates kept.
RECURSIVE SortInts(_)
SortInts(s) == IF s = <<>> THEN <<>> ELSE InsertInt(Head(s), SortInts(Tail(s)))

\* sort.Sort(sort.Reverse(sort.IntSlice(rev))): descending order.
SortReverse(s) ==
  LET a == SortInts(s) IN [i \in 1..Len(a) |-> a[Len(a) + 1 - i]]

\* sort.SearchInts(a, x): first index whose element is >= x.
SearchInts(a, x) == Search(Len(a), [i \in 0..(Len(a) - 1) |-> At(a, i) >= x])

\* m.hashMap[p]: the zero value "" when p has no entry.
MapGet(hm, p) == IF p \in DOMAIN hm THEN hm[p] ELSE ""

\* delete(m.hashMap, p)
MapDelete(hm, p) == [q \in (DOMAIN hm) \ {p} |-> hm[q]]

\* m.hashMap[p] = v
MapSet(hm, p, v) == [q \in (DOMAIN hm) \cup {p} |-> IF q = p THEN v ELSE hm[q]]

\* ------------------------------------------------------------ the ring
New(fn) == [hash |-> fn, keys |-> <<>>, hashMap |-> <<>>]

IsEmpty(m) == Len(m.keys) = 0

Hash(m, key) == m.hash[key]

AddNoCheck(m, key) ==
  LET h == Hash(m, key)
  IN  [m   |-> [m EXCEPT !.keys = SortInts(Append(m.keys, h)),
                         !.hashMap = MapSet(m.hashMap, h, key)],
       ret |-> h]

AddKeepsFirst(m, key) ==
  LET h == Hash(m, key)
  IN  IF h \notin DOMAIN m.hashMap
        THEN [m   |-> [m EXCEPT !.keys = SortInts(Append(m.keys, h)),
                               !.hashMap = MapSet(m.hashMap, h, key)],
              ret |-> h]
        ELSE [m |-> m, ret |-> h]

Add(m, key) ==
  LET h  == Hash(m, key)
      ks == IF h \notin DOMAIN m.hashMap
              THEN SortInts(Append(m.keys, h))
              ELSE m.keys
  IN  [m   |-> [m EXCEPT !.keys = ks, !.hashMap = MapSet(m.hashMap, h, key)],
       ret |-> h]

\* append(m.keys[:i], m.keys[i+1:]...)
Splice(ks, i) == SubSeq(ks, 1, i) \o SubSeq(ks, i + 2, Len(ks))

RemoveNoDelete(m, key) ==
  LET h  == Hash(m, key)
      i  == SearchInts(m.keys, h)
      ks == IF i < Len(m.keys) /\ At(m.keys, i) = h THEN Splice(m.keys, i) ELSE m.keys
  IN  [m EXCEPT !.keys = SortInts(ks)]

RemoveKeepsPosition(m, key) ==
  LET h  == Hash(m, key)
      i  == SearchInts(m.keys, h)
      ks == IF i < Len(m.keys) /\ At(m.keys, i) # h THEN Splice(m.keys, i) ELSE m.keys
  IN  [m EXCEPT !.keys = SortInts(ks), !.hashMap = MapDelete(m.hashMap, h)]

RemoveFirst(m, key) ==
  LET h  == Hash(m, key)
      ks == IF Len(m.keys) > 0 THEN Splice(m.keys, 0) ELSE m.keys
  IN  [m EXCEPT !.keys = SortInts(ks), !.hashMap = MapDelete(m.hashMap, h)]

Remove(m, key) ==
  LET h  == Hash(m, key)
      i  == SearchInts(m.keys, h)
      ks == IF i < Len(m.keys) /\ At(m.keys, i) = h THEN Splice(m.keys, i) ELSE m.keys
  IN  [m EXCEPT !.keys = SortInts(ks), !.hashMap = MapDelete(m.hashMap, h)]

Has(m, key) == Hash(m, key) \in DOMAIN m.hashMap

nextInclusive(m, h) ==
  LET n == Len(m.keys)
      i == Search(n, [x \in 0..(n - 1) |-> At(m.keys, x) >= h])
  IN  At(m.keys, IF i = n THEN 0 ELSE i)

\* Callers check IsEmpty first; m.keys is non-empty here.
next(m, h) ==
  LET n == Len(m.keys)
      i == Search(n, [x \in 0..(n - 1) |-> At(m.keys, x) > h])
  IN  At(m.keys, IF i = n THEN 0 ELSE i)

prevWrapsToSmallest(m, h) ==
  LET rev == SortReverse(m.keys)
      n   == Len(rev)
      i   == Search(n, [x \in 0..(n - 1) |-> At(rev, x) <= h])
  IN  At(rev, IF i = n THEN i - 1 ELSE i)

prevStrict(m, h) ==
  LET rev == SortReverse(m.keys)
      n   == Len(rev)
      i   == Search(n, [x \in 0..(n - 1) |-> At(rev, x) < h])
  IN  At(rev, IF i = n THEN 0 ELSE i)

prev(m, h) ==
  LET rev == SortReverse(m.keys)
      n   == Len(rev)
      i   == Search(n, [x \in 0..(n - 1) |-> At(rev, x) <= h])
  IN  At(rev, IF i = n THEN 0 ELSE i)

\* m.keys once prev has returned: rev is a slice of its own (make, then
\* copy), so the descending sort permutes rev and leaves m.keys as it was.
prevKeysInPlace(m, h) == SortReverse(m.keys)

prevKeys(m, h) == m.keys

\* prev of the earlier revision: on a miss it steps back to the last
\* element of the descending copy.
prevR(m, h) ==
  LET rev == SortReverse(m.keys)
      n   == Len(rev)
      i   == Search(n, [x \in 0..(n - 1) |-> At(rev, x) <= h])
  IN  At(rev, IF i = n THEN i - 1 ELSE i)

Next(m, key) ==
  IF IsEmpty(m) THEN "" ELSE MapGet(m.hashMap, next(m, Hash(m, key)))

Get(m, key) == Next(m, key)

GetFromHash(m, h) ==
  IF IsEmpty(m) THEN "" ELSE MapGet(m.hashMap, prevR(m, h))

\* The loop of NextN: i runs while i <= count; a store at an index that is
\* not below len(locations) panics (index out of range).
RECURSIVE NextNLoop(_, _, _, _, _)
NextNLoop(m, locations, h, i, count) ==
  IF i <= count
    THEN LET h2 == next(m, h)
         IN  IF i >= Len(locations)
               THEN [panic |-> TRUE, ret |-> locations]
               ELSE NextNLoop(m, [locations EXCEPT ![i + 1] = MapGet(m.hashMap, h2)],
                              h2, i + 1, count)
    ELSE [panic |-> FALSE, ret |-> locations]

NextN(m, key, count) ==
  IF IsEmpty(m) THEN [panic |-> FALSE, ret |-> <<>>]
  ELSE NextNLoop(m, [i \in 1..count |-> ""], Hash(m, key), 0, count)

RECURSIVE PrevNLoopNoStep(_, _, _, _, _)
PrevNLoopNoStep(m, locations, index, i, count) ==
  IF i < count
    THEN PrevNLoopNoStep(m, [locations EXCEPT ![i + 1] = MapGet(m.hashMap, index)],
                         prev(m, index), i + 1, count)
    ELSE locations

RECURSIVE PrevNLoop(_, _, _, _, _)
PrevNLoop(m, locations, index, i, count) ==
  IF i < count
    THEN PrevNLoop(m, [locations EXCEPT ![i + 1] = MapGet(m.hashMap, index)],
                   prev(m, index - 1), i + 1, count)
    ELSE locations

PrevNAllocFirst(m, key, count) ==
  IF IsEmpty(m) THEN [i \in 1..count |-> ""]
  ELSE PrevNLoop(m, [i \in 1..count |-> ""], prev(m, Hash(m, key)), 0, count)

PrevN(m, key, count) ==
  IF IsEmpty(m) THEN <<>>
  ELSE PrevNLoop(m, [i \in 1..count |-> ""], prev(m, Hash(m, key)), 0, count)

Range(m, host) ==
  IF IsEmpty(m) THEN <<0, 0>>
  ELSE LET to == Hash(m, host) IN <<prev(m, to - 1) + 1, to>>

\* m.keys once PrevN has returned: prev runs once before the loop and once
\* per iteration.
RECURSIVE PrevNKeysLoop(_, _, _, _)
PrevNKeysLoop(m, index, i, count) ==
  IF i < count
    THEN PrevNKeysLoop([m EXCEPT !.keys = prevKeys(m, index - 1)],
                       prev(m, index - 1), i + 1, count)
    ELSE m.keys

PrevNKeys(m, key, count) ==
  IF IsEmpty(m) THEN m.keys
  ELSE PrevNKeysLoop([m EXCEPT !.keys = prevKeys(m, Hash(m, key))],
                     prev(m, Hash(m, key)), 0, count)

\* m.keys once Range has returned.
RangeKeys(m, host) ==
  IF IsEmpty(m) THEN m.keys ELSE prevKeys(m, Hash(m, host) - 1)

\* ------------------------------------------------------------- actions
\* call is the last completed call with its result; prevCall the call
\* completed before it, and added the keys whose latest Add has not been
\* followed by a Remove of the same key (both recorded by SpecRT only).
Idle == [op |-> "idle", pc |-> "idle"]

RWInit == [writer |-> 0, held |-> FALSE, readers |-> [t \in Threads |-> 0]]

Init ==
  /\ hash \in HashFns
  /\ keys = New(hash).keys
  /\ hashMap = New(hash).hashMap
  /\ call = [op |-> "New"]
  /\ prevCall = [op |-> "New"]
  /\ added = {}
  /\ thr = [t \in Threads |-> Idle]
  /\ rw = RWInit
  /\ crash = ""

AddCall ==
  \E key \in Keys :
    LET r == Add(ring, key)
    IN  /\ keys' = r.m.keys
        /\ hashMap' = r.m.hashMap
        /\ call' = [op |-> "Add", key |-> key, ret |-> r.ret]
        /\ UNCHANGED hash

RemoveCall ==
  \E key \in Keys :
    LET r == Remove(ring, key)
    IN  /\ keys' = r.keys
        /\ hashMap' = r.hashMap
        /\ call' = [op |-> "Remove", key |-> key]
        /\ UNCHANGED hash

HasCall ==
  \E key \in Keys :
    /\ call' = [op |-> "Has", key |-> key, ret |-> Has(ring, key)]
    /\ UNCHANGED <<hash, keys, hashMap>>

DoAdd == AddCall /\ UNCHANGED <<prevCall, added, concVars>>

DoRemove == RemoveCall /\ UNCHANGED <<prevCall, added, concVars>>

DoHas == HasCall /\ UNCHANGED <<prevCall, added, concVars>>

DoIsEmpty ==
  /\ call' = [op |-> "IsEmpty", ret |-> IsEmpty(ring)]
  /\ UNCHANGED <<hash, keys, hashMap, prevCall, added, concVars>>

DoGet ==
  \E key \in Keys :
    /\ call' = [op |-> "Get", key |-> key, ret |-> Get(ring, key)]
    /\ UNCHANGED <<hash, keys, hashMap, prevCall, added, concVars>>

DoNext ==
  \E key \in Keys :
    /\ call' = [op |-> "Next", key |-> key, ret |-> Next(ring, key)]
    /\ UNCHANGED <<hash, keys, hashMap, prevCall, added, concVars>>

DoGetFromHash ==
  \E h \in Positions :
    /\ call' = [op |-> "GetFromHash", hash |-> h, ret |-> GetFromHash(ring, h)]
    /\ UNCHANGED <<hash, keys, hashMap, prevCall, added, concVars>>

DoNextN ==
  \E key \in Keys, count \in Counts :
    LET r == NextN(ring, key, count)
    IN  /\ call' = [op |-> "NextN", key |-> key, count |-> count,
                    panic |-> r.panic, ret |-> r.ret]
        /\ UNCHANGED <<hash, keys, hashMap, prevCall, added, concVars>>

DoPrevN ==
  \E key \in Keys, count \in Counts :
    /\ call' = [op |-> "PrevN", key |-> key, count |-> count,
                ret |-> PrevN(ring, key, count)]
    /\ keys' = PrevNKeys(ring, key, count)
    /\ UNCHANGED <<hash, hashMap, prevCall, added, concVars>>

DoRange ==
  \E host \in Keys :
    /\ call' = [op |-> "Range", key |-> host, ret |-> Range(ring, host)]
    /\ keys' = RangeKeys(ring, host)
    /\ UNCHANGED <<hash, hashMap, prevCall, added, concVars>>

Step ==
  \/ DoAdd
  \/ DoRemove
  \/ DoHas
  \/ DoIsEmpty
  \/ DoGet
  \/ DoNext
  \/ DoGetFromHash
  \/ DoNextN
  \/ DoPrevN
  \/ DoRange

Spec == Init /\ [][Step]_vars

\* Add / Remove / Has sequences with the call history remembered.
RtAdd ==
  /\ AddCall
  /\ prevCall' = call
  /\ added' = added \cup {call'.key}
  /\ UNCHANGED concVars

RtRemove ==
  /\ RemoveCall
  /\ prevCall' = call
  /\ added' = added \ {call'.key}
  /\ UNCHANGED concVars

RtHas == HasCall /\ prevCall' = call /\ UNCHANGED <<added, concVars>>

StepRT == RtAdd \/ RtRemove \/ RtHas

SpecRT == Init /\ [][StepRT]_vars

\* ------------------------------------------ goroutines and the lock
\* SpecConc: the goroutines of Threads call into one ring.  A step is one
\* lock operation or one access to keys / hashMap made between two lock
\* operations.  Results of concurrent lookups are not recorded; an index
\* out of range ends the process (crash).
\*
\* sync.RWMutex: writer is the goroutine that has announced Lock (0 if
\* none), held says its Lock has returned, readers counts each goroutine's
\* RLocks.  Once a writer has announced itself new RLocks wait for its
\* Unlock; the writer waits for the readers to drain.
ConcHash ==
  [k \in Keys |-> ((CHOOSE i \in 1..NumKeys : KeyPool[i] = k) - 1) % (MaxHash + 1)]

InitConc ==
  /\ hash = ConcHash
  /\ keys = New(hash).keys
  /\ hashMap = New(hash).hashMap
  /\ call = [op |-> "New"]
  /\ prevCall = [op |-> "New"]
  /\ added = {}
  /\ thr = [t \in Threads |-> Idle]
  /\ rw = RWInit
  /\ crash = ""

seqHist == <<call, prevCall, added>>

Pc(t) == thr[t].pc

RLock(t) == [rw EXCEPT !.readers[t] = @ + 1]

RUnlock(t) == [rw EXCEPT !.readers[t] = @ - 1]

Unlock(t) == [rw EXCEPT !.writer = 0, !.held = FALSE]

Readers == {t \in Threads : rw.readers[t] > 0}

\* Methods that start with m.Lock() and those that start with m.IsEmpty().
LockFirst == {"Add", "Remove", "Has"}

EmptyFirst == {"IsEmpty", "Get", "Next", "NextN", "PrevN", "Range", "GetReplicas"}

\* A goroutine enters a method.
Invoke(t) ==
  /\ crash = ""
  /\ Pc(t) = "idle"
  /\ \/ /\ thr' = [thr EXCEPT ![t] = [op |-> "IsEmpty", pc |-> "e.rlock"]]
     \/ \E o \in LockFirst, key \in Keys :
          thr' = [thr EXCEPT ![t] = [op |-> o, key |-> key, pc |-> "lock"]]
     \/ \E o \in EmptyFirst \ {"IsEmpty", "GetReplicas"}, key \in Keys :
          thr' = [thr EXCEPT ![t] = [op |-> o, key |-> key, pc |-> "e.rlock"]]
     \/ \E key \in Keys, n \in 1..MaxReplicas :
          thr' = [thr EXCEPT ![t] = [op |-> "GetReplicas", key |-> key,
                                     n |-> n, i |-> 0, pc |-> "e.rlock"]]
  /\ UNCHANGED <<hash, keys, hashMap, seqHist, rw, crash>>

\* m.RLock() in IsEmpty (e), in a lookup's body, in the earlier prev (p)
\* and in the earlier next (n).
RLockPcs == {"e.rlock", "rlock", "p.rlock", "n.rlock"}

AfterRLock(t) ==
  CASE Pc(t) = "e.rlock" -> "e.read"
    [] Pc(t) = "p.rlock" -> "p.read"
    [] Pc(t) = "n.rlock" -> "n.read"
    [] Pc(t) = "rlock" -> IF thr[t].op = "GetReplicas" THEN "loop" ELSE "body"

RLockStep(t) ==
  /\ crash = ""
  /\ Pc(t) \in RLockPcs
  /\ rw.writer = 0
  /\ rw' = RLock(t)
  /\ thr' = [thr EXCEPT ![t].pc = AfterRLock(t)]
  /\ UNCHANGED <<hash, keys, hashMap, seqHist, crash>>

\* IsEmpty: len(m.keys) == 0 and the deferred RUnlock; then the caller's
\* early return, or its next statement.
IsEmptyRead(t) ==
  /\ crash = ""
  /\ Pc(t) = "e.read"
  /\ rw' = RUnlock(t)
  /\ thr' = [thr EXCEPT ![t] =
       IF thr[t].op = "IsEmpty" \/ IsEmpty(ring) THEN Idle
       ELSE [@ EXCEPT !.pc = CASE thr[t].op = "Range" -> "uread"
                               [] thr[t].op = "GetReplicas" -> "p.rlock"
                               [] OTHER -> "rlock"]]
  /\ UNCHANGED <<hash, keys, hashMap, seqHist, crash>>

\* Next, Get, NextN, PrevN between RLock and the deferred RUnlock: next or
\* prev indexes m.keys.
LockedBody(t) ==
  /\ crash = ""
  /\ Pc(t) = "body"
  /\ crash' = IF IsEmpty(ring) THEN "keys index out of range"
              ELSE IF thr[t].op = "NextN" THEN "locations index out of range"
              ELSE ""
  /\ rw' = RUnlock(t)
  /\ thr' = [thr EXCEPT ![t] = Idle]
  /\ UNCHANGED <<hash, keys, hashMap, seqHist>>

\* Range: m.prev(to - 1) with no lock taken.  When a writer is inside its
\* critical section the read is a data race and may fault or complete.
UnlockedRead(t) ==
  /\ crash = ""
  /\ Pc(t) = "uread"
  /\ crash' \in IF IsEmpty(ring) THEN {"keys index out of range"}
                ELSE IF rw.held /\ Pc(rw.writer) \in {"cs1", "cs2"} THEN {"", "data race"}
                ELSE {""}
  /\ thr' = [thr EXCEPT ![t] = Idle]
  /\ UNCHANGED <<hash, keys, hashMap, seqHist, rw>>

\* m.Lock(): announce, then wait for the readers.
LockRequest(t) ==
  /\ crash = ""
  /\ Pc(t) = "lock"
  /\ rw.writer = 0
  /\ rw' = [rw EXCEPT !.writer = t]
  /\ thr' = [thr EXCEPT ![t].pc = "wait"]
  /\ UNCHANGED <<hash, keys, hashMap, seqHist, crash>>

LockAcquire(t) ==
  /\ crash = ""
  /\ Pc(t) = "wait"
  /\ Readers = {}
  /\ rw' = [rw EXCEPT !.held = TRUE]
  /\ thr' = [thr EXCEPT ![t].pc = IF thr[t].op = "Has" THEN "h.read" ELSE "cs1"]
  /\ UNCHANGED <<hash, keys, hashMap, seqHist, crash>>

\* Has: the map lookup and the deferred Unlock.
HasRead(t) ==
  /\ crash = ""
  /\ Pc(t) = "h.read"
  /\ rw' = Unlock(t)
  /\ thr' = [thr EXCEPT ![t] = Idle]
  /\ UNCHANGED <<hash, keys, hashMap, seqHist, crash>>

\* Add, Remove: the update of m.keys.
WriteKeys(t) ==
  /\ crash = ""
  /\ Pc(t) = "cs1"
  /\ keys' = IF thr[t].op = "Add" THEN Add(ring, thr[t].key).m.keys
             ELSE Remove(ring, thr[t].key).keys
  /\ thr' = [thr EXCEPT ![t].pc = "cs2"]
  /\ UNCHANGED <<hash, hashMap, seqHist, rw, crash>>

\* Add, Remove: the update of m.hashMap and the deferred Unlock.
WriteMap(t) ==
  /\ crash = ""
  /\ Pc(t) = "cs2"
  /\ hashMap' = IF thr[t].op = "Add" THEN Add(ring, thr[t].key).m.hashMap
                ELSE Remove(ring, thr[t].key).hashMap
  /\ rw' = Unlock(t)
  /\ thr' = [thr EXCEPT ![t] = Idle]
  /\ UNCHANGED <<hash, keys, seqHist, crash>>

\* GetReplicas (earlier revision): index := m.prev(hash), prev taking and
\* releasing the read lock itself.
ReplicasPrev(t) ==
  /\ crash = ""
  /\ Pc(t) = "p.read"
  /\ crash' = IF IsEmpty(ring) THEN "keys index out of range" ELSE ""
  /\ rw' = RUnlock(t)
  /\ thr' = [thr EXCEPT ![t].pc = "rlock"]
  /\ UNCHANGED <<hash, keys, hashMap, seqHist>>

\* GetReplicas: the loop head, holding the read lock; the body stores
\* m.hashMap[index] and calls m.next, which takes the read lock again.
ReplicasLoop(t) ==
  /\ crash = ""
  /\ Pc(t) = "loop"
  /\ IF thr[t].i < thr[t].n
       THEN /\ thr' = [thr EXCEPT ![t].pc = "n.rlock"]
            /\ rw' = rw
       ELSE /\ thr' = [thr EXCEPT ![t] = Idle]
            /\ rw' = RUnlock(t)
  /\ UNCHANGED <<hash, keys, hashMap, seqHist, crash>>

\* next of the earlier revision inside its own RLock / RUnlock.
ReplicasNext(t) ==
  /\ crash = ""
  /\ Pc(t) = "n.read"
  /\ crash' = IF IsEmpty(ring) THEN "keys index out of range" ELSE ""
  /\ rw' = RUnlock(t)
  /\ thr' = [thr EXCEPT ![t].pc = "loop", ![t].i = @ + 1]
  /\ UNCHANGED <<hash, keys, hashMap, seqHist>>

StepConc ==
  \/ \E t \in Threads : Invoke(t)
  \/ \E t \in Threads : RLockStep(t)
  \/ \E t \in Threads : IsEmptyRead(t)
  \/ \E t \in Threads : LockedBody(t)
  \/ \E t \in Threads : UnlockedRead(t)
  \/ \E t \in Threads : LockRequest(t)
  \/ \E t \in Threads : LockAcquire(t)
  \/ \E t \in Threads : HasRead(t)
  \/ \E t \in Threads : WriteKeys(t)
  \/ \E t \in Threads : WriteMap(t)
  \/ \E t \in Threads : ReplicasPrev(t)
  \/ \E t \in Threads : ReplicasLoop(t)
  \/ \E t \in Threads : ReplicasNext(t)

SpecConc == InitConc /\ [][StepConc]_vars

\* -------------------------------------------------- reference notions
\* The ring as a set of occupied positions, and the circular successor and
\* predecessor of a point, stated without any search.
Occupied == {keys[i] : i \in 1..Len(keys)}

Members == {hashMap[p] : p \in DOMAIN hashMap}

SetMin(S) == CHOOSE x \in S : \A y \in S : x <= y

SetMax(S) == CHOOSE x \in S : \A y \in S : x >= y

\* Smallest occupied position strictly above h, else the smallest overall.
Successor(S, h) ==
  IF \E p \in S : p > h THEN SetMin({p \in S : p > h}) ELSE SetMin(S)

\* Largest occupied position at or below h, else the largest overall (one
\* step counter-clockwise past zero).
Predecessor(S, h) ==
  IF \E p \in S : p <= h THEN SetMax({p \in S : p <= h}) ELSE SetMax(S)

\* Position reached by i successor steps from h.
RECURSIVE SuccessorN(_, _, _)
SuccessorN(S, h, i) ==
  IF i = 0 THEN h ELSE Successor(S, SuccessorN(S, h, i - 1))

\* i-th position of the counter-clockwise walk that starts at the
\* predecessor of h.
RECURSIVE PredecessorN(_, _, _)
PredecessorN(S, h, i) ==
  IF i = 1 THEN Predecessor(S, h)
  ELSE Predecessor(S, PredecessorN(S, h, i - 1) - 1)

\* Hash values from..to on the circle, wrapping past MaxHash when from > to.
CircInterval(from, to) ==
  IF from <= to THEN {h \in Positions : from <= h /\ h <= to}
  ELSE {h \in Positions : h >= from \/ h <= to}

Distinct(s) == \A i \in 1..Len(s) : \A j \in 1..Len(s) : i # j => s[i] # s[j]

\* ------------------------------------------------------------- claims

\* C1: Next(k) and Get(k) return the owner stored at the smallest occupied
\* position strictly greater than Hash(k), or at the smallest occupied
\* position overall when none is greater; both return "" on an empty ring.
C1_NextIsStrictSuccessor ==
  /\ call.op \in {"Next", "Get"} =>
       call.ret = IF keys = <<>> THEN ""
                  ELSE MapGet(hashMap, Successor(Occupied, hash[call.key]))
  /\ \A k \in Keys :
       /\ Get(ring, k) = Next(ring, k)
       /\ Len(keys) = 1 => Next(ring, k) = hashMap[keys[1]]
       /\ (Len(keys) >= 2 /\ MapGet(hashMap, hash[k]) = k) => Next(ring, k) # k

\* C1 witness: a Get on a ring of several members for a key hashing at or
\* above the largest position, answered by the member at the smallest.
C1_Witness ==
  /\ call.op = "Get"
  /\ Len(keys) >= 2
  /\ hash[call.key] >= keys[Len(keys)]
  /\ call.ret = hashMap[keys[1]]

\* C2: minimal remapping.  (a) After Add(m) every key's Next is unchanged
\* or is m.  (b) If m occupies its position, after Remove(m) every key
\* whose Next was not m keeps its Next.
C2_MinimalRemap ==
  [][/\ call'.op = "Add" =>
          \A k \in Keys : Next(ring', k) \in {Next(ring, k), call'.key}
     /\ (call'.op = "Remove" /\ MapGet(hashMap, hash[call'.key]) = call'.key) =>
          \A k \in Keys :
            Next(ring, k) # call'.key => Next(ring', k) = Next(ring, k)]_vars

\* C2 witness: a member was removed from a ring that keeps other members,
\* and some key is still routed to one of them.
C2_Witness ==
  /\ call.op = "Remove"
  /\ hash[call.key] \notin Occupied
  /\ Len(keys) >= 2
  /\ \E k \in Keys : Next(ring, k) = hashMap[keys[2]]

\* C3: keys is strictly ascending after any sequence of Add and Remove.
C3_StrictlyAscending ==
  \A i \in 1..(Len(keys) - 1) : keys[i] < keys[i + 1]

\* C3 witness: an Add of a key that collides with another key, on a ring
\* holding several positions.
C3_Witness ==
  /\ call.op = "Add"
  /\ Len(keys) >= 2
  /\ \E k \in Keys \ {call.key} : hash[k] = hash[call.key]

\* C4: the positions in keys are exactly the keys of hashMap.
C4_KeysMatchHashMap ==
  /\ Occupied = DOMAIN hashMap
  /\ Len(keys) = Cardinality(DOMAIN hashMap)

\* C4 witness: a Remove that took a member out and left others behind.
C4_Witness ==
  /\ call.op = "Remove"
  /\ hash[call.key] \notin DOMAIN hashMap
  /\ Len(keys) >= 1

\* C5: Has(k) is true immediately after Add(k), and false immediately
\* after a Remove(k) that follows it.
C5_RoundTrip ==
  /\ call.op = "Add" => Has(ring, call.key)
  /\ (call.op = "Has" /\ prevCall.op = "Add" /\ prevCall.key = call.key) =>
       call.ret = TRUE
  /\ (call.op = "Remove" /\ prevCall.op = "Add" /\ prevCall.key = call.key) =>
       ~Has(ring, call.key)
  /\ (call.op = "Has" /\ prevCall.op = "Remove" /\ prevCall.key = call.key) =>
       call.ret = FALSE

\* C5 witness: Remove(k) directly after Add(k) on a ring with other
\* members, and Has(k) is now false.
C5_Witness ==
  /\ call.op = "Remove"
  /\ prevCall.op = "Add"
  /\ prevCall.key = call.key
  /\ Len(keys) >= 1
  /\ ~Has(ring, call.key)

\* C6: on a non-empty ring NextN(k, count) returns normally exactly count
\* entries, the i-th being the owner after i successor steps from Hash(k);
\* pairwise distinct for count <= m, repeating for count > m.
C6_NextNExactCount ==
  (call.op = "NextN" /\ keys # <<>>) =>
    /\ ~call.panic
    /\ Len(call.ret) = call.count
    /\ \A i \in 1..Len(call.ret) :
         call.ret[i] = MapGet(hashMap, SuccessorN(Occupied, hash[call.key], i))
    /\ call.count <= Len(keys) => Distinct(call.ret)
    /\ call.count > Len(keys) => ~Distinct(call.ret)

\* C7: on a non-empty ring PrevN(k, count) returns exactly count entries:
\* first the owner at the predecessor of Hash(k), then the owner one
\* occupied position further counter-clockwise each time; pairwise distinct
\* for count <= m, repeating for count > m.  With A=10, B=50, C=90 and
\* Hash(k)=92, PrevN(k, 2) = <<"C", "B">>.
C7_PrevNWalk ==
  /\ (call.op = "PrevN" /\ keys # <<>>) =>
       /\ Len(call.ret) = call.count
       /\ \A i \in 1..call.count :
            call.ret[i] = MapGet(hashMap, PredecessorN(Occupied, hash[call.key], i))
       /\ call.count <= Len(keys) => Distinct(call.ret)
       /\ call.count > Len(keys) => ~Distinct(call.ret)
  /\ PrevN([hash    |-> ("A" :> 10 @@ "B" :> 50 @@ "C" :> 90 @@ "k" :> 92),
            keys    |-> <<10, 50, 90>>,
            hashMap |-> (10 :> "A" @@ 50 :> "B" @@ 90 :> "C")], "k", 2)
       = <<"C", "B">>

\* C7 witness: a PrevN asking for more entries than there are members, for
\* a key hashing below every occupied position.
C7_Witness ==
  /\ call.op = "PrevN"
  /\ Len(keys) = 2
  /\ call.count = 3
  /\ hash[call.key] < keys[1]
  /\ call.ret = <<hashMap[keys[2]], hashMap[keys[1]], hashMap[keys[2]]>>

\* C8: for a member host with (from, to) = Range(host), next(h) is host's
\* position if and only if h is one of from, from+1, ..., to on the circle.
C8_RangeIsRoutedSet ==
  (call.op = "Range" /\ keys # <<>> /\ MapGet(hashMap, hash[call.key]) = call.key) =>
    \A h \in Positions :
      (next(ring, h) = hash[call.key]) <=> (h \in CircInterval(call.ret[1], call.ret[2]))

\* C9: the circular intervals [from, to] that Range returns for the members
\* are pairwise disjoint and together cover the whole hash space.
C9_RangeCoverage ==
  LET I(host) == CircInterval(Range(ring, host)[1], Range(ring, host)[2])
  IN  /\ keys # <<>> =>
           /\ \A a \in Members : \A b \in Members : a # b => I(a) \cap I(b) = {}
           /\ UNION {I(a) : a \in Members} = Positions
      /\ (call.op = "Range" /\ call.key \in Members) =>
           /\ call.ret[2] = hash[call.key]
           /\ CircInterval(call.ret[1], call.ret[2]) = I(call.key)

\* C9 witness: Range of the member at the smallest of three positions; its
\* interval wraps past the maximum.
C9_Witness ==
  /\ call.op = "Range"
  /\ Len(keys) = 3
  /\ call.key \in Members
  /\ hash[call.key] = keys[1]
  /\ call.ret[1] > call.ret[2]

\* C10: GetFromHash(Hash(k)) returns the same member as Get(k), and "" on
\* an empty ring.
C10_GetFromHashIsGet ==
  call.op = "GetFromHash" =>
    /\ \A k \in Keys : Hash(ring, k) = call.hash => call.ret = Get(ring, k)
    /\ keys = <<>> => call.ret = ""

\* C11: on an empty ring every lookup returns its sentinel and changes
\* nothing: "" from Get, Next and GetFromHash, an empty sequence from NextN
\* and PrevN for any count, (0, 0) from Range.
C11_EmptyRingSentinels ==
  [][keys = <<>> =>
       /\ call'.op \in {"Get", "Next", "GetFromHash"} => call'.ret = ""
       /\ call'.op = "NextN" => (~call'.panic /\ call'.ret = <<>>)
       /\ call'.op = "PrevN" => call'.ret = <<>>
       /\ call'.op = "Range" => call'.ret = <<0, 0>>
       /\ call'.op \in {"Get", "Next", "GetFromHash", "NextN", "PrevN", "Range"} =>
            (keys' = <<>> /\ hashMap' = hashMap)]_vars

\* C11 witness: PrevN with a positive count answered on an empty ring.
C11_Witness ==
  /\ keys = <<>>
  /\ hashMap = <<>>
  /\ call.op = "PrevN"
  /\ call.count = MaxCount
  /\ call.ret = <<>>

\* C12: Remove(k) of a key that was never added, or was already removed,
\* leaves keys and hashMap as they were.
C12_RemoveAbsentIsNoOp ==
  [][(call'.op = "Remove" /\ call'.key \notin added) =>
       (keys' = keys /\ hashMap' = hashMap)]_vars

\* C13: Add(k) directly after Add(k) leaves keys and hashMap as the first
\* call left them, and both calls return Hash(k).
C13_AddIdempotent ==
  [][(call.op = "Add" /\ call'.op = "Add" /\ call'.key = call.key) =>
       /\ keys' = keys
       /\ hashMap' = hashMap
       /\ call'.ret = call.ret
       /\ call'.ret = Hash(ring, call.key)]_vars

\* C13 witness: the second of two consecutive Add(k) has returned on a
\* ring with other members.
C13_Witness ==
  /\ call.op = "Add"
  /\ prevCall.op = "Add"
  /\ prevCall.key = call.key
  /\ Len(keys) >= 2
  /\ call.ret = prevCall.ret

\* Points prev is called with: every position, and -1 from Range and PrevN.
PrevArgs == (-1)..MaxHash

\* C18 as stated: prev(p) is the largest occupied position <= p, and the
\* smallest occupied position when none is at or below p.
C18_PrevWrapsToSmallest ==
  keys # <<>> =>
    \A p \in PrevArgs :
      prev(ring, p) = IF \E q \in Occupied : q <= p
                        THEN SetMax({q \in Occupied : q <= p})
                        ELSE SetMin(Occupied)

\* C18 amended: prev(p) is the largest occupied position <= p, and the
\* largest occupied position when none is at or below p; the prev of the
\* earlier revision (behind GetFromHash) returns the smallest in that case.
C18_PrevWrapsToLargest ==
  keys # <<>> =>
    \A p \in PrevArgs :
      /\ prev(ring, p) = IF \E q \in Occupied : q <= p
                           THEN SetMax({q \in Occupied : q <= p})
                           ELSE SetMax(Occupied)
      /\ prevR(ring, p) = IF \E q \in Occupied : q <= p
                            THEN SetMax({q \in Occupied : q <= p})
                            ELSE SetMin(Occupied)

\* C18 witness: Range of the member at the smallest of several positions,
\* whose prev(to - 1) finds nothing at or below and answers the largest.
C18_Witness ==
  /\ call.op = "Range"
  /\ Len(keys) >= 2
  /\ hash[call.key] = keys[1]
  /\ call.ret[1] = keys[Len(keys)] + 1
  /\ prev(ring, keys[1] - 1) = keys[Len(keys)]

\* C19: for distinct a, b with Hash(a) = Hash(b), after Add(a) then Add(b)
\* the position is in keys exactly once, hashMap holds b there, no lookup
\* returns a, lookups routed to the position return b, and keys is as long
\* as after Add(a) alone.
C19_CollisionOverwrite ==
  [][(/\ call.op = "Add"
      /\ call'.op = "Add"
      /\ call'.key # call.key
      /\ hash[call'.key] = hash[call.key]) =>
       LET p == hash[call'.key]
       IN  /\ Cardinality({i \in 1..Len(keys') : keys'[i] = p}) = 1
           /\ MapGet(hashMap', p) = call'.key
           /\ Len(keys') = Len(keys)
           /\ \A k \in Keys :
                /\ Next(ring', k) # call.key
                /\ next(ring', Hash(ring', k)) = p => Next(ring', k) = call'.key
                /\ \A c \in Counts : \A i \in 1..c : PrevN(ring', k, c)[i] # call.key
           /\ \A h \in Positions :
                /\ GetFromHash(ring', h) # call.key
                /\ prevR(ring', h) = p => GetFromHash(ring', h) = call'.key]_vars

\* C19 witness: Add(b) has returned directly after Add(a) with the same
\* hash, on a ring with another member, and b owns the position.
C19_Witness ==
  /\ call.op = "Add"
  /\ prevCall.op = "Add"
  /\ prevCall.key # call.key
  /\ hash[prevCall.key] = hash[call.key]
  /\ Len(keys) >= 2
  /\ hashMap[hash[call.key]] = call.key

\* C20: IsEmpty, Has, Get, Next, PrevN and Range leave keys (contents and
\* ascending order) and hashMap unchanged.
C20_LookupsReadOnly ==
  [][call'.op \in {"IsEmpty", "Has", "Get", "Next", "PrevN", "Range"} =>
       /\ keys' = keys
       /\ hashMap' = hashMap
       /\ \A i \in 1..(Len(keys') - 1) : keys'[i] < keys'[i + 1]]_vars

\* C20 witness: a PrevN that ran prev several times on three members, with
\* keys still ascending.
C20_Witness ==
  /\ call.op = "PrevN"
  /\ call.count >= 2
  /\ Len(keys) = 3
  /\ keys[1] < keys[2]
  /\ keys[2] < keys[3]

\* ------------------------------------------------- concurrency claims
\* The goroutine's next step reads or writes keys or hashMap.
Accessing(t) ==
  Pc(t) \in {"e.read", "body", "uread", "h.read", "cs1", "cs2", "p.read", "loop", "n.read"}

HoldsLock(t) == rw.readers[t] > 0 \/ (rw.writer = t /\ rw.held)

\* The goroutine waits on the lock and cannot take its next step.
Blocked(t) ==
  \/ Pc(t) \in RLockPcs /\ rw.writer # 0
  \/ Pc(t) = "lock" /\ rw.writer # 0
  \/ Pc(t) = "wait" /\ Readers # {}

\* C14: while an Add or Remove is between its first and last access to
\* keys / hashMap no other operation reads or writes them, and every
\* access by a public operation happens with the lock held.
C14_WriterExclusion ==
  /\ \A t \in Threads : Accessing(t) => HoldsLock(t)
  /\ \A w \in Threads : Pc(w) = "cs2" => \A u \in Threads \ {w} : ~Accessing(u)

\* C15: in no interleaving of lookups with Remove and Add is the successor
\* or predecessor search run on an empty position sequence.
C15_NoSearchOnEmptyKeys ==
  crash # "keys index out of range"

\* C16: no reachable state has goroutines inside a call that are all
\* blocked on the lock, so every invoked operation can still return.
C16_NoDeadlock ==
  (crash = "" /\ \E t \in Threads : Pc(t) # "idle") =>
    \E t \in Threads : Pc(t) # "idle" /\ ~Blocked(t)

\* C17: no read operation takes the lock in exclusive mode, so any two
\* read operations can be inside their critical sections together.
C17_ReadsShareTheLock ==
  \A t \in Threads :
    rw.writer = t => thr[t].op \in {"Add", "Remove"}

====
